---- MODULE Spec2Model ----
(***************************************************************************)
(* A model of the DP100 protocol engine (src/dp100.py): the CRC and the    *)
(* frame codec, the exchanges of the public operations and of the          *)
(* communication thread, the abort flag, set_output's retry loop, the      *)
(* settings and device-information operations, and the engine's lifecycle; *)
(* and of the watchdog of MainWindow.set_output (src/main.py).             *)
(***************************************************************************)
EXTENDS Integers, Sequences, FiniteSets, TLC

VARIABLES
    \* the codec specification: one send_frame looped back into receive_frame
    txType,      \* function_type given to send_frame
    txData,      \* data given to send_frame
    wire,        \* the report the transport holds for the next device.read
    wireKind,    \* what the transport did to the written frame
    rxResult,    \* what receive_frame returned
    codecPc      \* "start" | "written" | "altered" | "received"

VARIABLES
    \* DP100's fields
    device,      \* self.device: "None" or the hid.device object "obj"
    handleOpen,  \* whether that hid handle is open (opened and not closed)
    stop_event,  \* self._stop_event
    abort_flag,  \* self._abort_flag
    cmdq,        \* self._command_queue
    respq,       \* self._response_queue
    \* the transport and the device behind it
    rx,          \* reports the device has sent and device.read has not returned
    devPending,  \* opcodes of the requests the device holds unanswered
    \* the threads: "comm" is self._thread, the others call the public API
    pc,          \* where each thread is
    op,          \* the public operation a caller is in
    req,         \* the (function_type, data) of the exchange a thread is in
    elapsed,     \* ms since receive_frame's start_time, per thread
    ret,         \* what a caller's last get_basic_info returned
    afterAbort   \* per thread: -1, or the device reads issued (counted up
                 \* to MaxCounted) since abort_operation ran while the
                 \* thread was in receive_frame

VARIABLES
    \* set_output in the GUI thread
    soArgs,      \* its arguments: voltage (mV), current (mA), max_retries
    attempts,    \* iterations of its for loop begun so far ("Attempt n")
    phase,       \* the exchange it is in: "check", "set" or "verify"
    info,        \* its local info, the last get_basic_info result
    soRet,       \* what it returned: "none" (running), "True" or "False"
    \* what the device did during the current set_output call
    nSetWrites,  \* setpoint frames (0x35) written completely
    attemptLog,  \* how each exchange of the current attempt ended
    firstVerify, \* how the call's first verification read ended, or "none"
    devFaults,   \* an exchange got no acknowledgment or no telemetry
    devInTol     \* a telemetry read was within tolerance of the request

VARIABLES
    \* get_device_info, get_settings and set_settings in the GUI thread
    opRet,       \* how the last of these calls ended, and its value
    ssArgs,      \* set_settings' arguments (NotGiven for an omitted one)
    current_settings, \* set_settings' local: the dict get_settings returned
    ssWritten,   \* the payload of the settings frame (0x38) the current
                 \* set_settings call wrote completely, or <<>>
    ssResp,      \* what receive_frame returned for that frame, or None
    \* the handles and threads of the process
    openHandles, \* hid handles opened and not closed
    liveThreads, \* communication threads started and not ended
    \* MainWindow (src/main.py)
    watchdog_timer \* self.watchdog_timer: "none", "active", "expired"
                   \* (deadline passed, timeout not delivered) or "stopped"

codecVars == <<txType, txData, wire, wireKind, rxResult, codecPc>>
outputVars == <<soArgs, attempts, phase, info, soRet, nSetWrites, attemptLog,
                firstVerify, devFaults, devInTol>>
engineVars == <<device, handleOpen, stop_event, abort_flag, cmdq, respq>>
transportVars == <<rx, devPending>>
threadVars == <<pc, op, req, elapsed, ret, afterAbort>>
settingsVars == <<opRet, ssArgs, current_settings, ssWritten, ssResp>>
lifeVars == <<openHandles, liveThreads>>
moreVars == <<settingsVars, lifeVars, watchdog_timer>>
nonCodecVars == <<engineVars, transportVars, threadVars, outputVars,
                  moreVars>>
vars == <<codecVars, nonCodecVars>>

(***************************************************************************)
(* Bounds of the model.                                                    *)
(***************************************************************************)
\* longest payload the codec specification encodes
MaxPayload == 2
\* most commands waiting on the command queue, entries on the response queue
MaxQueue == 1
MaxResp == 1
\* the device reads counted after an abort (the last value means "or more")
MaxCounted == 2
\* largest max_retries given to set_output
MaxRetries == 2
\* most reports waiting in the HID input buffer, requests the device holds
MaxRx == 1
MaxPending == 1

(***************************************************************************)
(* Program constants.                                                      *)
(***************************************************************************)
\* crc16's default polynomial 0xA001 and its initial register 0xFFFF
Poly == 40961
CrcInit == 65535
\* the marker byte send_frame packs first (251 = 0xFB)
Marker == 251
\* the opcodes of the public operations
OpBasicInfo == 48
OpDeviceInfo == 49
OpSetOutput == 53
OpGetSettings == 55
OpSetSettings == 56
\* the shortest report receive_frame accepts
MinFrameLen == 6
\* receive_frame's default timeout_ms, device.read's timeout_ms and the
\* sleep between two reads (time.sleep(0.01)), all in ms
TimeoutMs == 1000
ReadTimeoutMs == 100
SleepMs == 10
\* the payload size get_basic_info requires
BasicInfoLen == 16
\* set_output's tolerance on vout and iout: 0.1 V and 0.1 A, in mV and mA
Tolerance == 100
\* the number of payload bytes get_settings requires (len(data) >= 8) and
\* the number it hands to struct.unpack (data[:9])
SettingsMinLen == 8
SettingsSliceLen == 9
\* the payload size parse_device_info requires
DeviceInfoLen == 32
\* set_output's default max_retries
DefaultMaxRetries == 3

(***************************************************************************)
(* Checksum: crc16, computed as the code computes it.                      *)
(***************************************************************************)
RECURSIVE XorBits(_, _, _)
\* a ^ b on the low n bits (Python's ^ on non-negative ints)
XorBits(a, b, n) ==
    IF n = 0 THEN 0
    ELSE (((a % 2) + (b % 2)) % 2) + (2 * XorBits(a \div 2, b \div 2, n - 1))

Xor16(a, b) == XorBits(a, b, 16)

RECURSIVE CrcShift(_, _)
\* the inner loop: k times, crc = (crc >> 1) ^ poly if (crc & 1) else crc >> 1
CrcShift(crc, k) ==
    IF k = 0 THEN crc
    ELSE LET next == IF crc % 2 = 1 THEN Xor16(crc \div 2, Poly)
                     ELSE crc \div 2
         IN  \* the test only makes TLC evaluate next before the call
             IF next >= 0 THEN CrcShift(next, k - 1) ELSE 0

RECURSIVE CrcFold(_, _, _)
\* the outer loop over data[i..]: crc ^= byte, then the inner loop
CrcFold(crc, data, i) ==
    IF i > Len(data) THEN crc
    ELSE LET next == CrcShift(Xor16(crc, data[i]), 8)
         IN  IF next >= 0 THEN CrcFold(next, data, i + 1) ELSE 0

\* the same fold started from a zero register
crc16ZeroInit(data) == CrcFold(0, data, 1)

crc16(data) == CrcFold(CrcInit, data, 1)

(***************************************************************************)
(* Frame codec.                                                            *)
(***************************************************************************)
Min(a, b) == IF a < b THEN a ELSE b

\* Python's seq[lo:hi] (0-based, clamped to the sequence) on a 1-based Seq
Slice(s, lo, hi) == SubSeq(s, lo + 1, Min(hi, Len(s)))

\* struct.pack("<H", v)
PackU16(v) == <<v % 256, (v \div 256) % 256>>

\* the frame send_frame builds and writes
BuildFrame(function_type, data) ==
    LET head == <<Marker, function_type, 0, Len(data)>> \o data
    IN  head \o PackU16(crc16(head))

\* receive_frame's None, and the dict it returns
None == [ok |-> FALSE, function_type |-> 0, data |-> <<>>]
Response(ft, d) == [ok |-> TRUE, function_type |-> ft, data |-> d]

\* the parse taking the payload from one byte too early
ParseReportShifted(response) ==
    IF Len(response) < MinFrameLen THEN None
    ELSE Response(response[2], Slice(response, 3, 3 + response[4]))

\* what receive_frame makes of one non-empty report
ParseReport(response) ==
    IF Len(response) < MinFrameLen THEN None
    ELSE Response(response[2], Slice(response, 4, 4 + response[4]))

(***************************************************************************)
(* Telemetry: get_basic_info's parse of a response.                        *)
(***************************************************************************)
\* the k-th (0-based) little-endian "H" of struct.unpack("<HHHHHHHH", data)
UnpackU16(data, k) == data[2 * k + 1] + 256 * data[2 * k + 2]

\* get_basic_info's None.  A returned record keeps each field as the integer
\* that was unpacked; the code divides it (vin, power by 100, vout, iout,
\* dc_5v by 1000, temp1, temp2 by 10), so vout and iout are in mV and mA.
NoInfo == [ok |-> FALSE, vin |-> 0, vout |-> 0, iout |-> 0, power |-> 0,
           temp1 |-> 0, temp2 |-> 0, dc_5v |-> 0, status |-> 0]

\* the k-th "H" of a payload that may be too short for it
UnpackU16OrZero(data, k) ==
    IF Len(data) >= 2 * k + 2 THEN UnpackU16(data, k) ELSE 0

\* the parse without the test of the payload size: the fields the payload
\* reaches are populated, the others left at 0
BasicInfoAnySize(sent, r) ==
    IF sent /\ r.ok /\ r.function_type = OpBasicInfo
    THEN [ok |-> TRUE,
          vin |-> UnpackU16OrZero(r.data, 0),
          vout |-> UnpackU16OrZero(r.data, 1),
          iout |-> UnpackU16OrZero(r.data, 2),
          power |-> UnpackU16OrZero(r.data, 3),
          temp1 |-> UnpackU16OrZero(r.data, 4),
          temp2 |-> UnpackU16OrZero(r.data, 5),
          dc_5v |-> UnpackU16OrZero(r.data, 6),
          status |-> UnpackU16OrZero(r.data, 7)]
    ELSE NoInfo

\* what get_basic_info returns: sent is send_frame's result, r is what
\* receive_frame returned
BasicInfo(sent, r) ==
    IF sent /\ r.ok /\ r.function_type = OpBasicInfo
            /\ Len(r.data) = BasicInfoLen
    THEN [ok |-> TRUE,
          vin |-> UnpackU16(r.data, 0), vout |-> UnpackU16(r.data, 1),
          iout |-> UnpackU16(r.data, 2), power |-> UnpackU16(r.data, 3),
          temp1 |-> UnpackU16(r.data, 4), temp2 |-> UnpackU16(r.data, 5),
          dc_5v |-> UnpackU16(r.data, 6), status |-> UnpackU16(r.data, 7)]
    ELSE NoInfo

(***************************************************************************)
(* struct.pack and struct.unpack with a little-endian format of unsigned   *)
(* items: a format is the sequence of its items' sizes in bytes ("B" is 1, *)
(* "H" is 2).  Both raise struct.error when the number of values, a value  *)
(* or the number of bytes does not fit the format.                         *)
(***************************************************************************)
StructError == [ok |-> FALSE, data |-> <<>>, values |-> <<>>]

RECURSIVE Pow256(_)
Pow256(n) == IF n = 0 THEN 1 ELSE 256 * Pow256(n - 1)

RECURSIVE PackLE(_, _)
\* the n little-endian bytes of v
PackLE(v, n) == IF n = 0 THEN <<>> ELSE <<v % 256>> \o PackLE(v \div 256, n - 1)

RECURSIVE UnpackLE(_)
\* the unsigned integer of little-endian bytes
UnpackLE(bytes) ==
    IF bytes = <<>> THEN 0 ELSE Head(bytes) + 256 * UnpackLE(Tail(bytes))

RECURSIVE FormatSize(_)
\* struct.calcsize
FormatSize(fmt) == IF fmt = <<>> THEN 0 ELSE Head(fmt) + FormatSize(Tail(fmt))

RECURSIVE PackItems(_, _)
PackItems(fmt, values) ==
    IF fmt = <<>> THEN <<>>
    ELSE PackLE(Head(values), Head(fmt)) \o PackItems(Tail(fmt), Tail(values))

RECURSIVE UnpackItems(_, _)
UnpackItems(fmt, data) ==
    IF fmt = <<>> THEN <<>>
    ELSE <<UnpackLE(SubSeq(data, 1, Head(fmt)))>>
            \o UnpackItems(Tail(fmt), SubSeq(data, Head(fmt) + 1, Len(data)))

\* struct.pack(fmt, *values)
StructPack(fmt, values) ==
    IF Len(values) # Len(fmt) THEN StructError
    ELSE IF \E i \in DOMAIN fmt :
                values[i] < 0 \/ values[i] >= Pow256(fmt[i])
    THEN StructError
    ELSE [ok |-> TRUE, data |-> PackItems(fmt, values), values |-> values]

\* struct.unpack(fmt, data)
StructUnpack(fmt, data) ==
    IF Len(data) # FormatSize(fmt) THEN StructError
    ELSE [ok |-> TRUE, data |-> data, values |-> UnpackItems(fmt, data)]

(***************************************************************************)
(* Settings: get_settings' parse of a response and set_settings' merge and *)
(* encoding.  over_power_protection is unpacked[2] / 10 and set_settings    *)
(* packs int(opp * 10): the model keeps it as an integer (the payloads and  *)
(* arguments of the model hold multiples of 10 and whole numbers).          *)
(***************************************************************************)
\* "<BBHHHB" of get_settings and "<BBHHHBB" of set_settings
GetSettingsFormat == <<1, 1, 2, 2, 2, 1>>
SetSettingsFormat == <<1, 1, 2, 2, 2, 1, 1>>

\* Python's None, for an argument left out and for a missing record
NotGiven == -1

NoSettings ==
    [backlight |-> NotGiven, key_sound |-> NotGiven,
     over_power_protection |-> NotGiven,
     over_temperature_protection |-> NotGiven,
     reverse_protection |-> NotGiven, power_on_state |-> NotGiven]

\* how a call ended: kind is "none" (running, or never called), "value" (a
\* dict was returned), "None", "True", "False" or "raise" (an exception left
\* the call)
Ended(o, kind, settings) == [op |-> o, kind |-> kind, settings |-> settings]

\* the dict get_settings builds from the unpacked values (reverse_protection
\* is bool(unpacked[4]), kept as 0 or 1)
SettingsDict(u) ==
    [backlight |-> u[1], key_sound |-> u[2],
     over_power_protection |-> u[3] \div 10,
     over_temperature_protection |-> u[4],
     reverse_protection |-> IF u[5] # 0 THEN 1 ELSE 0,
     power_on_state |-> u[6]]

\* what get_settings does with its exchange: sent is send_frame's result,
\* r is what receive_frame returned
GetSettingsResult(sent, r) ==
    IF sent /\ r.ok /\ r.function_type = OpGetSettings
            /\ Len(r.data) >= SettingsMinLen
    THEN LET unpacked == StructUnpack(GetSettingsFormat,
                                      Slice(r.data, 0, SettingsSliceLen))
         IN  IF unpacked.ok
             THEN Ended("get_settings", "value", SettingsDict(unpacked.values))
             ELSE Ended("get_settings", "raise", NoSettings)
    ELSE Ended("get_settings", "None", NoSettings)

\* "x if x is not None else current_settings[key]": the value, or KeyError
Pick(x, d, key) ==
    IF x # NotGiven THEN [ok |-> TRUE, v |-> x]
    ELSE IF key \in DOMAIN d THEN [ok |-> TRUE, v |-> d[key]]
    ELSE [ok |-> FALSE, v |-> 0]

\* set_settings' six assignments (lines 302-317) and its struct.pack (lines
\* 319-327): the payload, or the exception of a missing key or a bad pack
MergeAndPack(args, d) ==
    LET picks == <<Pick(args.backlight, d, "backlight"),
                   Pick(args.volume, d, "volume"),
                   Pick(args.opp, d, "opp"),
                   Pick(args.otp, d, "otp"),
                   Pick(args.reverse_protect, d, "reverse_protect"),
                   Pick(args.auto_output, d, "auto_output")>>
    IN  IF \E i \in DOMAIN picks : ~picks[i].ok THEN StructError
        ELSE StructPack(SetSettingsFormat,
                        <<picks[1].v, picks[2].v, picks[3].v * 10, picks[4].v,
                          picks[5].v, picks[6].v>>)

\* the test of the response to the settings frame (lines 332-339): "True",
\* "False", or "raise" when response["data"][0] finds the payload empty
SettingsAck(sent, r) ==
    IF ~sent THEN "False"
    ELSE IF ~r.ok \/ r.function_type # OpSetSettings THEN "False"
    ELSE IF r.data = <<>> THEN "raise"
    ELSE IF r.data[1] # 1 THEN "False"
    ELSE "True"

(***************************************************************************)
(* Device information: parse_device_info decodes four byte fields; decode  *)
(* raises on bytes that are not UTF-8 (the payloads of the model hold      *)
(* ASCII bytes and the byte 0xFF, which no UTF-8 text contains).           *)
(***************************************************************************)
DecodeOk(bytes) == \A i \in DOMAIN bytes : bytes[i] < 128

\* what get_device_info does with its exchange
GetDeviceInfoResult(sent, r) ==
    IF sent /\ r.ok /\ r.function_type = OpDeviceInfo
    THEN (IF Len(r.data) >= DeviceInfoLen
          THEN (IF DecodeOk(Slice(r.data, 0, DeviceInfoLen))
                THEN Ended("get_device_info", "value", NoSettings)
                ELSE Ended("get_device_info", "raise", NoSettings))
          ELSE Ended("get_device_info", "None", NoSettings))
    ELSE Ended("get_device_info", "None", NoSettings)

(***************************************************************************)
(* The device behind the transport: what it may answer to a request.       *)
(***************************************************************************)
Threads == {"comm", "gui"}
Callers == {"gui"}

\* the (vout mV, iout mA) pairs the device reports
TelemetrySamples == {<<5050, 950>>, <<5000, 0>>, <<0, 1000>>}

\* a basic-info payload: vin, vout, iout, power, temp1, temp2, dc_5v, status
TelemetryPayload(vout, iout) ==
    PackU16(1200) \o PackU16(vout) \o PackU16(iout) \o PackU16(0)
        \o PackU16(250) \o PackU16(250) \o PackU16(5000) \o PackU16(1)

\* a settings payload as get_settings reads it: backlight, key sound, over-
\* power limit in tenths, over-temperature limit, reverse protection and
\* power-on state
SettingsPayload(rec) ==
    StructPack(GetSettingsFormat,
               <<rec.backlight, rec.key_sound, rec.over_power_protection * 10,
                 rec.over_temperature_protection, rec.reverse_protection,
                 rec.power_on_state>>).data

\* the settings the device holds
DeviceSettings ==
    [backlight |-> 3, key_sound |-> 1, over_power_protection |-> 105,
     over_temperature_protection |-> 80, reverse_protection |-> 1,
     power_on_state |-> 0]

\* a device-information payload: name, hardware and software version and
\* serial number, padded with zero bytes
DeviceInfoPayload ==
    <<68, 80, 49, 48, 48, 0, 0, 0>> \o <<49, 46, 48, 0>> \o <<49, 46, 52, 0>>
        \o [i \in 1..16 |-> IF i <= 8 THEN 48 + i ELSE 0]

DeviceOps == {OpBasicInfo, OpDeviceInfo, OpSetOutput, OpGetSettings,
              OpSetSettings}

\* the reports the device may send in answer to opcode o: a frame echoing o
\* or a report shorter than a frame.  The frame carries telemetry, or no
\* payload, for 0x30; a one-byte status, success or failure, for the
\* setpoint frame; the settings, the settings less their last byte, or one
\* byte, for 0x37; a status or no payload for 0x38; the device information,
\* the same with a byte that is not text, or one byte, for 0x31
RepliesOf ==
    [o \in DeviceOps |->
        (IF o = OpBasicInfo
         THEN {BuildFrame(o, TelemetryPayload(s[1], s[2])) :
                    s \in TelemetrySamples} \cup {BuildFrame(o, <<>>)}
         ELSE IF o = OpSetOutput
         THEN {BuildFrame(o, <<1>>), BuildFrame(o, <<0>>)}
         ELSE IF o = OpGetSettings
         THEN {BuildFrame(o, SettingsPayload(DeviceSettings)),
               BuildFrame(o, SubSeq(SettingsPayload(DeviceSettings), 1,
                                    SettingsMinLen)),
               BuildFrame(o, <<1>>)}
         ELSE IF o = OpSetSettings
         THEN {BuildFrame(o, <<1>>), BuildFrame(o, <<0>>),
               BuildFrame(o, <<>>)}
         ELSE {BuildFrame(o, DeviceInfoPayload),
               BuildFrame(o, <<255>> \o Tail(DeviceInfoPayload)),
               BuildFrame(o, <<1>>)})
        \cup {<<Marker, o, 0>>}]

\* the same for a device whose output stays at 5.05 V, 0.95 A
SteadyRepliesOf ==
    [o \in DeviceOps |->
        {IF o = OpBasicInfo THEN BuildFrame(o, TelemetryPayload(5050, 950))
         ELSE BuildFrame(o, <<1>>)}
        \cup {<<Marker, o, 0>>}]

\* the commands a client puts on the command queue
Commands == {[function_type |-> OpDeviceInfo, data |-> <<>>]}

NoReq == [function_type |-> 0, data |-> <<>>]

\* set_settings' arguments when none is given
NoArgs ==
    [backlight |-> NotGiven, volume |-> NotGiven, opp |-> NotGiven,
     otp |-> NotGiven, reverse_protect |-> NotGiven,
     auto_output |-> NotGiven]

(***************************************************************************)
(* The engine after DP100.__init__.                                        *)
(***************************************************************************)
InitEngine ==
    /\ device = "None"
    /\ handleOpen = FALSE
    /\ stop_event = FALSE
    /\ abort_flag = FALSE
    /\ cmdq = <<>>
    /\ respq = <<>>
    /\ rx = <<>>
    /\ devPending = <<>>
    /\ pc = [t \in Threads |-> IF t = "comm" THEN "none" ELSE "idle"]
    /\ op = [t \in Threads |-> "none"]
    /\ req = [t \in Threads |-> NoReq]
    /\ elapsed = [t \in Threads |-> 0]
    /\ ret = [t \in Callers |-> NoInfo]
    /\ afterAbort = [t \in Threads |-> -1]
    /\ soArgs = [voltage |-> 0, current |-> 0, max_retries |-> 0]
    /\ attempts = 0
    /\ phase = "none"
    /\ info = NoInfo
    /\ soRet = "none"
    /\ nSetWrites = 0
    /\ attemptLog = <<>>
    /\ firstVerify = "none"
    /\ devFaults = FALSE
    /\ devInTol = FALSE
    /\ opRet = Ended("none", "none", NoSettings)
    /\ ssArgs = NoArgs
    /\ current_settings = NoSettings
    /\ ssWritten = <<>>
    /\ ssResp = None
    /\ openHandles = 0
    /\ liveThreads = 0
    /\ watchdog_timer = "none"

(***************************************************************************)
(* What runs in a thread once its exchange is over: send_frame returned    *)
(* False (sent = FALSE) or receive_frame returned r.                       *)
(***************************************************************************)
\* _execute_command's tail: the response, or None, goes on the response
\* queue and the communication thread loops
ExecuteCommandDone(sent, r) ==
    /\ respq' = Append(respq, IF sent THEN r ELSE None)
    /\ pc' = [pc EXCEPT !["comm"] = "loop"]
    /\ req' = [req EXCEPT !["comm"] = NoReq]
    /\ UNCHANGED <<op, ret, soArgs, attempts, phase, info, soRet, attemptLog,
                   firstVerify, devFaults, devInTol, settingsVars,
                   watchdog_timer>>

\* get_basic_info's tail: the parsed record, or None, is returned
GetBasicInfoDone(t, sent, r) ==
    /\ ret' = [ret EXCEPT ![t] = BasicInfo(sent, r)]
    /\ pc' = [pc EXCEPT ![t] = "idle"]
    /\ op' = [op EXCEPT ![t] = "none"]
    /\ req' = [req EXCEPT ![t] = NoReq]
    /\ UNCHANGED <<respq, soArgs, attempts, phase, info, soRet, attemptLog,
                   firstVerify, devFaults, devInTol, settingsVars,
                   watchdog_timer>>

(***************************************************************************)
(* set_output(voltage, current, max_retries) in the GUI thread.  Voltages  *)
(* and currents are integers of mV and mA: the code holds them as floats   *)
(* of V and A, packs int(x * 1000) and compares abs(reported - requested)  *)
(* with 0.1.  The targets and telemetry samples of the model keep away     *)
(* from a difference of exactly 100, where float rounding would decide.    *)
(***************************************************************************)
Abs(x) == IF x < 0 THEN -x ELSE x

BasicInfoReq == [function_type |-> OpBasicInfo, data |-> <<>>]

\* struct.pack("<BHHHH", 0x20, 1, int(voltage * 1000), int(current * 1000),
\* 0xFFFF)
SetOutputReq(voltage, current) ==
    [function_type |-> OpSetOutput,
     data |-> <<32>> \o PackU16(1) \o PackU16(voltage) \o PackU16(current)
                \o PackU16(65535)]

\* the test of the response to the setpoint frame (lines 229-235)
Acknowledged(sent, r) == sent /\ r.ok /\ r.function_type = OpSetOutput

\* the verification test without its test of the current
VerifiedVoltageOnly(i, voltage, current) ==
    /\ i.ok
    /\ Abs(i.vout - voltage) < Tolerance

\* the verification test asking for the exact values
VerifiedExact(i, voltage, current) ==
    /\ i.ok
    /\ i.vout = voltage
    /\ i.iout = current

\* the verification test (lines 240-244)
Verified(i, voltage, current) ==
    /\ i.ok
    /\ Abs(i.vout - voltage) < Tolerance
    /\ Abs(i.iout - current) < Tolerance

\* the payload of a response to the setpoint frame that reports success: the
\* one-byte status 1, or a readback of the size of the setpoint structure
SuccessPayload(data) ==
    \/ data = <<1>>
    \/ Len(data) = Len(SetOutputReq(0, 0).data)

\* how an exchange ended, as the device's behaviour: the frame was not
\* written; a setpoint frame's opcode was echoed with a success payload
\* ("ack"), echoed with another payload ("ack_bad") or not echoed; a telemetry
\* read reported values within tolerance of the request, outside it, or
\* nothing usable
WithinTolerance(i, voltage, current) ==
    /\ i.ok
    /\ Abs(i.vout - voltage) < Tolerance
    /\ Abs(i.iout - current) < Tolerance

Outcome(ph, sent, r) ==
    IF ~sent THEN "write_failed"
    ELSE IF ph = "set"
    THEN (IF r.ok /\ r.function_type = OpSetOutput
          THEN (IF SuccessPayload(r.data) THEN "ack" ELSE "ack_bad")
          ELSE "no_ack")
    ELSE IF ~BasicInfo(sent, r).ok THEN "no_tele"
    ELSE IF WithinTolerance(BasicInfo(sent, r), soArgs.voltage,
                            soArgs.current)
    THEN "tele_in" ELSE "tele_out"

\* the record of the exchange that just ended (a new attempt starts a new
\* attemptLog)
Observe(sent, r) ==
    /\ attemptLog' = IF attempts' # attempts THEN <<>>
                     ELSE Append(attemptLog, Outcome(phase, sent, r))
    /\ firstVerify' = IF phase = "verify" /\ firstVerify = "none"
                      THEN Outcome(phase, sent, r) ELSE firstVerify
    /\ devFaults' = (devFaults \/ Outcome(phase, sent, r)
                                    \in {"write_failed", "no_ack", "no_tele"})
    /\ devInTol' = (devInTol \/ Outcome(phase, sent, r) = "tele_in")

\* set_output's next exchange: the GUI thread is about to send_frame(request)
NextExchange(ph, request) ==
    /\ phase' = ph
    /\ req' = [req EXCEPT !["gui"] = request]
    /\ pc' = [pc EXCEPT !["gui"] = "send"]
    /\ soRet' = "none"
    /\ op' = [op EXCEPT !["gui"] = "set_output"]

\* set_output returns value
ReturnFromSetOutput(value) ==
    /\ soRet' = value
    /\ pc' = [pc EXCEPT !["gui"] = "idle"]
    /\ op' = [op EXCEPT !["gui"] = "none"]
    /\ req' = [req EXCEPT !["gui"] = NoReq]
    /\ UNCHANGED phase

\* the loop head giving up one attempt early
LoopHeadShort(n, max_retries) ==
    IF n + 1 < max_retries
    THEN /\ attempts' = n + 1
         /\ NextExchange("check", BasicInfoReq)
    ELSE /\ attempts' = n
         /\ ReturnFromSetOutput("False")

\* the head of "for attempt in range(max_retries)" after n iterations: the
\* next attempt starts with get_basic_info, or the loop is over and
\* set_output returns False
LoopHead(n, max_retries) ==
    IF n < max_retries
    THEN /\ attempts' = n + 1
         /\ NextExchange("check", BasicInfoReq)
    ELSE /\ attempts' = n
         /\ ReturnFromSetOutput("False")

\* MainWindow.set_output's self.watchdog_timer.stop() once dp100.set_output
\* has returned to it (no timer exists when another caller ran set_output)
TimerStopped(timer) == IF timer = "none" THEN "none" ELSE "stopped"

\* set_output after one of its exchanges: the state check failed or passed,
\* the setpoint frame was acknowledged or not, the verification passed or
\* failed
SetOutputDone(sent, r) ==
    /\ IF phase = "check"
       THEN /\ info' = BasicInfo(sent, r)
            /\ IF BasicInfo(sent, r).ok
               THEN /\ NextExchange("set", SetOutputReq(soArgs.voltage,
                                                        soArgs.current))
                    /\ UNCHANGED attempts
               ELSE LoopHead(attempts, soArgs.max_retries)
       ELSE IF phase = "set"
       THEN /\ UNCHANGED info
            /\ IF Acknowledged(sent, r)
               THEN /\ NextExchange("verify", BasicInfoReq)
                    /\ UNCHANGED attempts
               ELSE LoopHead(attempts, soArgs.max_retries)
       ELSE /\ info' = BasicInfo(sent, r)
            /\ IF Verified(BasicInfo(sent, r), soArgs.voltage,
                           soArgs.current)
               THEN /\ ReturnFromSetOutput("True")
                    /\ UNCHANGED attempts
               ELSE LoopHead(attempts, soArgs.max_retries)
    /\ Observe(sent, r)
    /\ watchdog_timer' = IF soRet' \in {"True", "False"}
                         THEN TimerStopped(watchdog_timer)
                         ELSE watchdog_timer
    /\ UNCHANGED <<ret, respq, soArgs, settingsVars>>

(***************************************************************************)
(* get_device_info, get_settings and set_settings in the GUI thread.       *)
(***************************************************************************)
\* set_output's variables that its own exchanges alone change
soLocals == <<soArgs, attempts, phase, info, soRet, attemptLog, firstVerify,
              devFaults, devInTol>>

\* the call in the GUI thread ends with the outcome e
ReturnToCaller(e) ==
    /\ opRet' = e
    /\ pc' = [pc EXCEPT !["gui"] = "idle"]
    /\ op' = [op EXCEPT !["gui"] = "none"]
    /\ req' = [req EXCEPT !["gui"] = NoReq]

\* get_device_info's tail
GetDeviceInfoDone(sent, r) ==
    /\ ReturnToCaller(GetDeviceInfoResult(sent, r))
    /\ UNCHANGED <<ret, respq, soLocals, ssArgs, current_settings, ssWritten,
                   ssResp, watchdog_timer>>

\* get_settings' tail
GetSettingsDone(sent, r) ==
    /\ ReturnToCaller(GetSettingsResult(sent, r))
    /\ UNCHANGED <<ret, respq, soLocals, ssArgs, current_settings, ssWritten,
                   ssResp, watchdog_timer>>

SetSettingsReq(data) == [function_type |-> OpSetSettings, data |-> data]

\* set_settings after its get_settings (the exchange of opcode 0x37): an
\* exception of get_settings leaves set_settings too; without a record it
\* returns False; with one it merges and packs, which raises or leads to
\* its send_frame(0x38, data)
SetSettingsFetched(sent, r) ==
    LET got == GetSettingsResult(sent, r)
        packed == MergeAndPack(ssArgs, got.settings)
    IN  /\ current_settings' = got.settings
        /\ IF got.kind = "raise"
           THEN ReturnToCaller(Ended("set_settings", "raise", NoSettings))
           ELSE IF got.kind = "None"
           THEN ReturnToCaller(Ended("set_settings", "False", NoSettings))
           ELSE IF ~packed.ok
           THEN ReturnToCaller(Ended("set_settings", "raise", NoSettings))
           ELSE /\ req' = [req EXCEPT !["gui"] = SetSettingsReq(packed.data)]
                /\ pc' = [pc EXCEPT !["gui"] = "send"]
                /\ UNCHANGED <<op, opRet>>
        /\ UNCHANGED ssResp

\* set_settings after the exchange of its settings frame
SetSettingsWritten(sent, r) ==
    /\ ReturnToCaller(Ended("set_settings", SettingsAck(sent, r), NoSettings))
    /\ ssResp' = IF sent THEN r ELSE None
    /\ UNCHANGED current_settings

SetSettingsDone(sent, r) ==
    /\ IF req["gui"].function_type = OpGetSettings
       THEN SetSettingsFetched(sent, r)
       ELSE SetSettingsWritten(sent, r)
    /\ UNCHANGED <<ret, respq, soLocals, ssArgs, ssWritten, watchdog_timer>>

ExchangeDone(t, sent, r) ==
    IF t = "comm" THEN ExecuteCommandDone(sent, r)
    ELSE IF op[t] = "set_output" THEN SetOutputDone(sent, r)
    ELSE IF op[t] = "get_device_info" THEN GetDeviceInfoDone(sent, r)
    ELSE IF op[t] = "get_settings" THEN GetSettingsDone(sent, r)
    ELSE IF op[t] = "set_settings" THEN SetSettingsDone(sent, r)
    ELSE GetBasicInfoDone(t, sent, r)

\* what an exchange's end may change
doneVars == <<pc, op, req, ret, respq, soArgs, attempts, phase, info, soRet,
              attemptLog, firstVerify, devFaults, devInTol, settingsVars,
              watchdog_timer>>

\* the caller after a failed write goes on to receive_frame all the same
CallerReadsAnyway(t) ==
    /\ pc' = [pc EXCEPT ![t] = "recv"]
    /\ UNCHANGED <<op, req, ret, respq, soLocals, settingsVars,
                   watchdog_timer>>

\* the caller of a send_frame that returned False: _execute_command puts
\* None on the response queue, the public operations return None or False,
\* set_output goes to its next attempt
CallerAfterFailedWrite(t) == ExchangeDone(t, FALSE, None)

(***************************************************************************)
(* send_frame and receive_frame, one transport call per step.              *)
(***************************************************************************)
\* Requests held by the device and reports in the input buffer carry the
\* thread whose exchange wrote the request (by); Stale(t, q) is q once
\* thread t starts another exchange: what it wrote before is "late"
RECURSIVE Stale(_, _)
Stale(t, q) ==
    IF q = <<>> THEN <<>>
    ELSE <<IF Head(q).by = t THEN [Head(q) EXCEPT !.by = "late"] ELSE Head(q)>>
            \o Stale(t, Tail(q))

\* the device takes the request written by thread t, unless it already
\* holds MaxPending
DeviceHears(t, function_type) ==
    LET held == Stale(t, devPending)
    IN  IF Len(held) < MaxPending /\ function_type \in DeviceOps
        THEN Append(held, [op |-> function_type, by |-> t])
        ELSE held

\* send_frame(req[t]): "ok" is a complete write; "short" a write that
\* returns another count (the device may or may not have the frame);
\* "error" a write that raises.  Without a device, or with a handle that
\* was never opened, send_frame returns False as well.
send_frame(t) ==
    /\ pc[t] = "send"
    /\ IF device = "None" \/ ~handleOpen
       THEN /\ pc' = [pc EXCEPT ![t] = "failed"]
            /\ UNCHANGED <<devPending, rx, elapsed, afterAbort, nSetWrites,
                           ssWritten>>
       ELSE \E w \in {"ok", "short_heard", "short_lost", "error"} :
              /\ rx' = Stale(t, rx)
              /\ IF w = "ok"
                 THEN /\ devPending' = DeviceHears(t, req[t].function_type)
                      /\ pc' = [pc EXCEPT ![t] = "recv"]
                      /\ elapsed' = [elapsed EXCEPT ![t] = 0]
                      /\ afterAbort' = [afterAbort EXCEPT ![t] = -1]
                      /\ nSetWrites' =
                           IF op[t] = "set_output" /\ phase = "set"
                           THEN nSetWrites + 1 ELSE nSetWrites
                      /\ ssWritten' =
                           IF op[t] = "set_settings"
                              /\ req[t].function_type = OpSetSettings
                           THEN req[t].data ELSE ssWritten
                 ELSE /\ devPending' = IF w = "short_heard"
                                       THEN DeviceHears(t, req[t].function_type)
                                       ELSE Stale(t, devPending)
                      /\ pc' = [pc EXCEPT ![t] = "failed"]
                      /\ UNCHANGED <<elapsed, afterAbort, nSetWrites, ssWritten>>
    /\ UNCHANGED <<device, handleOpen, stop_event, abort_flag, cmdq, respq,
                   op, req, ret, soLocals, opRet, ssArgs, current_settings,
                   ssResp, watchdog_timer, lifeVars, codecVars>>

\* send_frame has returned False to its caller in thread t
write_failed(t) ==
    /\ pc[t] = "failed"
    /\ t = "comm" => Len(respq) < MaxResp
    /\ CallerAfterFailedWrite(t)
    /\ UNCHANGED <<device, handleOpen, stop_event, abort_flag, cmdq,
                   transportVars, elapsed, afterAbort, nSetWrites, lifeVars,
                   codecVars>>

\* a clock that stands still
ClockStopped(e) == e

\* the time since start_time after one more pass of receive_frame's loop:
\* a device.read that waited its timeout_ms, and the sleep
PassElapsed(e) == e + ReadTimeoutMs + SleepMs

\* afterAbort once one more device.read was issued
CountRead(t) ==
    [afterAbort EXCEPT ![t] = IF @ >= 0 /\ @ < MaxCounted THEN @ + 1 ELSE @]

\* one pass of receive_frame's loop in thread t: device.read(64,
\* timeout_ms=100) returns the next report, which is parsed and returned;
\* or it returns nothing after 100 ms and, after the 10 ms sleep, the loop
\* goes on or (timeout_ms elapsed) returns None; or the device is gone and
\* the read raises, which returns None.  elapsed[t] is the time since the
\* call's start_time and goes back to 0 when the call returns.
receive_frame(t) ==
    /\ pc[t] = "recv"
    /\ t = "comm" => Len(respq) < MaxResp
    /\ IF device = "None" \/ ~handleOpen
       THEN /\ ExchangeDone(t, TRUE, None)
            /\ elapsed' = [elapsed EXCEPT ![t] = 0]
            /\ UNCHANGED <<rx, afterAbort>>
       ELSE IF rx # <<>>
       THEN /\ rx' = Tail(rx)
            /\ afterAbort' = CountRead(t)
            /\ ExchangeDone(t, TRUE, ParseReport(Head(rx).report))
            /\ elapsed' = [elapsed EXCEPT ![t] = 0]
       ELSE /\ afterAbort' = CountRead(t)
            /\ IF PassElapsed(elapsed[t]) < TimeoutMs
               THEN /\ elapsed' = [elapsed EXCEPT ![t] = PassElapsed(@)]
                    /\ UNCHANGED doneVars
               ELSE /\ elapsed' = [elapsed EXCEPT ![t] = 0]
                    /\ ExchangeDone(t, TRUE, None)
            /\ UNCHANGED rx
    /\ UNCHANGED <<device, handleOpen, stop_event, abort_flag, cmdq,
                   devPending, nSetWrites, codecVars, lifeVars>>

\* the device answers the oldest request it holds, from the given replies
DeviceReplyFrom(replies) ==
    /\ devPending # <<>>
    /\ Len(rx) < MaxRx
    /\ \E report \in replies[Head(devPending).op] :
          rx' = Append(rx, [report |-> report, by |-> Head(devPending).by])
    /\ devPending' = Tail(devPending)
    /\ UNCHANGED <<engineVars, threadVars, outputVars, codecVars,
                   moreVars>>

DeviceReply == DeviceReplyFrom(RepliesOf)
DeviceReplySteady == DeviceReplyFrom(SteadyRepliesOf)

\* the device never answers the oldest request it holds
DeviceIgnore ==
    /\ devPending # <<>>
    /\ devPending' = Tail(devPending)
    /\ UNCHANGED <<engineVars, threadVars, outputVars, codecVars, rx,
                   moreVars>>

(***************************************************************************)
(* The public operations.                                                  *)
(***************************************************************************)
\* get_basic_info is called in thread t: its send_frame(0x30, b"") is next
get_basic_info(t) ==
    /\ pc[t] = "idle"
    /\ op' = [op EXCEPT ![t] = "get_basic_info"]
    /\ req' = [req EXCEPT ![t] = BasicInfoReq]
    /\ pc' = [pc EXCEPT ![t] = "send"]
    /\ UNCHANGED <<engineVars, transportVars, elapsed, ret, afterAbort,
                   outputVars, codecVars,
                   moreVars>>

\* the (voltage mV, current mA) pairs set_output is called with
OutputTargets == {<<5000, 1000>>}

\* set_output(voltage, current, max_retries) starts in the GUI thread: the
\* for loop begins
StartSetOutput(voltage, current, max_retries) ==
    /\ soArgs' = [voltage |-> voltage, current |-> current,
                  max_retries |-> max_retries]
    /\ LoopHead(0, max_retries)
    /\ info' = NoInfo
    /\ nSetWrites' = 0
    /\ attemptLog' = <<>>
    /\ firstVerify' = "none"
    /\ devFaults' = FALSE
    /\ devInTol' = FALSE
    /\ UNCHANGED <<engineVars, transportVars, elapsed, ret, afterAbort,
                   codecVars, settingsVars, lifeVars>>

\* set_output(voltage, current, max_retries) is called in the GUI thread
set_output ==
    /\ pc["gui"] = "idle"
    /\ \E target \in OutputTargets, m \in 0..MaxRetries :
         StartSetOutput(target[1], target[2], m)
    /\ UNCHANGED watchdog_timer

\* get_device_info is called in the GUI thread
get_device_info ==
    /\ pc["gui"] = "idle"
    /\ op' = [op EXCEPT !["gui"] = "get_device_info"]
    /\ req' = [req EXCEPT !["gui"] =
                    [function_type |-> OpDeviceInfo, data |-> <<>>]]
    /\ pc' = [pc EXCEPT !["gui"] = "send"]
    /\ opRet' = Ended("get_device_info", "none", NoSettings)
    /\ UNCHANGED <<engineVars, transportVars, elapsed, ret, afterAbort,
                   outputVars, codecVars, ssArgs, current_settings,
                   ssWritten, ssResp, lifeVars, watchdog_timer>>

GetSettingsReq == [function_type |-> OpGetSettings, data |-> <<>>]

\* get_settings is called in the GUI thread
get_settings ==
    /\ pc["gui"] = "idle"
    /\ op' = [op EXCEPT !["gui"] = "get_settings"]
    /\ req' = [req EXCEPT !["gui"] = GetSettingsReq]
    /\ pc' = [pc EXCEPT !["gui"] = "send"]
    /\ opRet' = Ended("get_settings", "none", NoSettings)
    /\ UNCHANGED <<engineVars, transportVars, elapsed, ret, afterAbort,
                   outputVars, codecVars, ssArgs, current_settings,
                   ssWritten, ssResp, lifeVars, watchdog_timer>>

\* the arguments set_settings is called with: only the backlight, every
\* argument, or none
SettingsArgs ==
    {[NoArgs EXCEPT !.backlight = 2],
     [backlight |-> 2, volume |-> 0, opp |-> 90, otp |-> 70,
      reverse_protect |-> 0, auto_output |-> 1],
     NoArgs}

\* set_settings(...) is called in the GUI thread: its get_settings is next
set_settings ==
    /\ pc["gui"] = "idle"
    /\ \E args \in SettingsArgs : ssArgs' = args
    /\ current_settings' = NoSettings
    /\ ssWritten' = <<>>
    /\ ssResp' = None
    /\ op' = [op EXCEPT !["gui"] = "set_settings"]
    /\ req' = [req EXCEPT !["gui"] = GetSettingsReq]
    /\ pc' = [pc EXCEPT !["gui"] = "send"]
    /\ opRet' = Ended("set_settings", "none", NoSettings)
    /\ UNCHANGED <<engineVars, transportVars, elapsed, ret, afterAbort,
                   outputVars, codecVars, lifeVars, watchdog_timer>>

\* self.device is never seen set
NeverConnected == FALSE

\* self.device is set
Connected == device # "None"

(***************************************************************************)
(* MainWindow (src/main.py): its set_output handler and its watchdog.      *)
(***************************************************************************)
\* MainWindow.set_output, a handler of the GUI thread: with a device, it
\* starts the single-shot watchdog timer and calls dp100.set_output with
\* the default max_retries; the call runs in this handler, so the handler
\* (and the GUI thread's event loop) goes on only when the call returns,
\* and the handler then stops the timer
MainWindow_set_output ==
    /\ pc["gui"] = "idle"
    /\ Connected
    /\ watchdog_timer' = "active"
    /\ \E target \in OutputTargets :
         StartSetOutput(target[1], target[2], DefaultMaxRetries)

\* the watchdog's 15 s pass while it is active, that is while
\* dp100.set_output runs.  The timeout is delivered to watchdog_timeout by
\* the event loop, which the GUI thread is not running; the handler stops
\* the timer before it returns to the loop.  Nothing else happens: the
\* watchdog_timeout in effect (the second definition) would log and show a
\* message box, and does not call dp100.abort_operation either.
watchdog_expire ==
    /\ watchdog_timer = "active"
    /\ watchdog_timer' = "expired"
    /\ UNCHANGED <<engineVars, transportVars, threadVars, outputVars,
                   codecVars, settingsVars, lifeVars>>

\* connect(), called in the GUI thread: a no-op with self.device set;
\* otherwise self.device is assigned before open(), which may raise, and
\* only after a successful open is the communication thread started
connect ==
    /\ pc["gui"] = "idle"
    /\ IF Connected
       THEN UNCHANGED <<device, handleOpen, pc, lifeVars>>
       ELSE /\ device' = "obj"
            /\ \E opened \in BOOLEAN :
                 /\ handleOpen' = opened
                 /\ pc' = IF opened THEN [pc EXCEPT !["comm"] = "loop"]
                          ELSE pc
                 /\ openHandles' = IF opened THEN openHandles + 1
                                   ELSE openHandles
                 /\ liveThreads' = IF opened THEN liveThreads + 1
                                   ELSE liveThreads
    /\ UNCHANGED <<stop_event, abort_flag, cmdq, respq, transportVars,
                   op, req, elapsed, ret, afterAbort, outputVars, codecVars,
                   settingsVars, watchdog_timer>>

\* disconnect(), called in the GUI thread: with self.device set, the stop
\* event is set and the thread (if any) is joined
disconnect ==
    /\ pc["gui"] = "idle"
    /\ IF ~Connected
       THEN UNCHANGED <<stop_event, pc>>
       ELSE /\ stop_event' = TRUE
            /\ pc' = [pc EXCEPT !["gui"] = "join"]
    /\ UNCHANGED <<device, handleOpen, abort_flag, cmdq, respq,
                   transportVars, op, req, elapsed, ret, afterAbort,
                   outputVars, codecVars,
                   moreVars>>

\* disconnect() after the join: the handle is closed, self.device = None.
\* (The join waits at most 5 s; the thread leaves its loop within one queue
\* wait of 0.1 s and one exchange of about 1 s after the stop event.)
disconnect_close ==
    /\ pc["gui"] = "join"
    /\ pc["comm"] \in {"none", "dead"}
    /\ handleOpen' = FALSE
    /\ openHandles' = IF handleOpen THEN openHandles - 1 ELSE openHandles
    /\ device' = "None"
    /\ pc' = [pc EXCEPT !["gui"] = "idle"]
    /\ UNCHANGED <<stop_event, abort_flag, cmdq, respq, transportVars,
                   op, req, elapsed, ret, afterAbort, outputVars, codecVars,
                   settingsVars, liveThreads, watchdog_timer>>

\* abort_operation(), from any thread: the flag is set, the command queue
\* is emptied and a None goes on the response queue
abort_operation ==
    /\ Len(respq) < MaxResp
    /\ abort_flag' = TRUE
    /\ cmdq' = <<>>
    /\ respq' = Append(respq, None)
    /\ afterAbort' = [t \in Threads |->
                        IF pc[t] = "recv" /\ afterAbort[t] < 0 THEN 0
                        ELSE afterAbort[t]]
    /\ UNCHANGED <<device, handleOpen, stop_event, transportVars,
                   pc, op, req, elapsed, ret, outputVars, codecVars,
                   moreVars>>

(***************************************************************************)
(* The communication thread and the clients of its queues.                 *)
(***************************************************************************)
\* _communication_thread's loop test finds the stop event set: it ends
comm_stop ==
    /\ pc["comm"] = "loop"
    /\ stop_event
    /\ pc' = [pc EXCEPT !["comm"] = "dead"]
    /\ liveThreads' = liveThreads - 1
    /\ UNCHANGED <<engineVars, transportVars, op, req, elapsed, ret,
                   afterAbort, outputVars, codecVars, settingsVars,
                   openHandles, watchdog_timer>>

\* _command_queue.get(timeout=0.1) raises queue.Empty: the loop goes on
comm_get_empty ==
    /\ pc["comm"] = "loop"
    /\ ~stop_event
    /\ cmdq = <<>>
    /\ UNCHANGED <<engineVars, transportVars, threadVars, outputVars,
                   codecVars,
                   moreVars>>

\* _command_queue.get returns a command and _execute_command starts on it
comm_get_command ==
    /\ pc["comm"] = "loop"
    /\ ~stop_event
    /\ cmdq # <<>>
    /\ req' = [req EXCEPT !["comm"] = Head(cmdq)]
    /\ cmdq' = Tail(cmdq)
    /\ pc' = [pc EXCEPT !["comm"] = "send"]
    /\ UNCHANGED <<device, handleOpen, stop_event, abort_flag, respq,
                   transportVars, op, elapsed, ret, afterAbort, outputVars,
                   codecVars,
                   moreVars>>

\* a client puts a command on the command queue
put_command ==
    /\ Len(cmdq) < MaxQueue
    /\ \E c \in Commands : cmdq' = Append(cmdq, c)
    /\ UNCHANGED <<device, handleOpen, stop_event, abort_flag, respq,
                   transportVars, threadVars, outputVars, codecVars,
                   moreVars>>

\* a client takes the oldest entry off the response queue
take_response ==
    /\ respq # <<>>
    /\ respq' = Tail(respq)
    /\ UNCHANGED <<device, handleOpen, stop_event, abort_flag, cmdq,
                   transportVars, threadVars, outputVars, codecVars,
                   moreVars>>

(***************************************************************************)
(* The codec specification: send_frame(txType, txData) writes a frame, the *)
(* transport hands it back (as written, padded to a longer report, with    *)
(* one bit flipped, or cut short) and receive_frame reads it.              *)
(***************************************************************************)
\* the opcodes and payload bytes the codec specification draws from
CodecOps == {OpBasicInfo, OpSetOutput, OpSetSettings}
ByteSamples == {0, 1, 170, 255}

RECURSIVE SeqsUpTo(_, _)
\* the sequences over S of length at most n
SeqsUpTo(S, n) ==
    IF n = 0 THEN {<<>>}
    ELSE LET shorter == SeqsUpTo(S, n - 1)
         IN  shorter \cup {Append(s, x) : s \in shorter, x \in S}

RECURSIVE Pow2(_)
Pow2(n) == IF n = 0 THEN 1 ELSE 2 * Pow2(n - 1)

\* byte v with bit b flipped
FlipBit(v, b) ==
    IF (v \div Pow2(b)) % 2 = 1 THEN v - Pow2(b) ELSE v + Pow2(b)

InitCodec ==
    /\ txType \in CodecOps
    /\ txData \in SeqsUpTo(ByteSamples, MaxPayload)
    /\ wire = <<>>
    /\ wireKind = "none"
    /\ rxResult = None
    /\ codecPc = "start"

\* send_frame on an open device whose write takes the whole frame
CodecSend ==
    /\ codecPc = "start"
    /\ wire' = BuildFrame(txType, txData)
    /\ wireKind' = "echo"
    /\ codecPc' = "written"
    /\ UNCHANGED <<txType, txData, rxResult, nonCodecVars>>

\* the report reaches the host padded with k zero bytes
CodecPad ==
    /\ codecPc = "written"
    /\ \E k \in 1..2 : wire' = wire \o [i \in 1..k |-> 0]
    /\ wireKind' = "padded"
    /\ codecPc' = "altered"
    /\ UNCHANGED <<txType, txData, rxResult, nonCodecVars>>

\* one bit of the frame (header, payload or checksum) is flipped
CodecFlipBit ==
    /\ codecPc = "written"
    /\ \E i \in 1..Len(wire), b \in 0..7 :
           wire' = [wire EXCEPT ![i] = FlipBit(wire[i], b)]
    /\ wireKind' = "bitflip"
    /\ codecPc' = "altered"
    /\ UNCHANGED <<txType, txData, rxResult, nonCodecVars>>

\* only the first n bytes of the frame arrive
CodecTruncate ==
    /\ codecPc = "written"
    /\ \E n \in 1..(Len(wire) - 1) : wire' = SubSeq(wire, 1, n)
    /\ wireKind' = "truncated"
    /\ codecPc' = "altered"
    /\ UNCHANGED <<txType, txData, rxResult, nonCodecVars>>

\* receive_frame: device.read returns the report, which is parsed
CodecReceive ==
    /\ codecPc \in {"written", "altered"}
    /\ rxResult' = ParseReport(wire)
    /\ codecPc' = "received"
    /\ UNCHANGED <<txType, txData, wire, wireKind, nonCodecVars>>

NextCodec ==
    \/ CodecSend
    \/ CodecPad
    \/ CodecFlipBit
    \/ CodecTruncate
    \/ CodecReceive

InitCodecSpec == InitCodec /\ InitEngine

SpecCodec == InitCodecSpec /\ [][NextCodec]_vars

\* the codec variables while the engine specifications run
CodecIdle ==
    /\ txType = OpBasicInfo
    /\ txData = <<>>
    /\ wire = <<>>
    /\ wireKind = "none"
    /\ rxResult = None
    /\ codecPc = "off"

(***************************************************************************)
(* The engine specification: the GUI thread connects and disconnects, the  *)
(* callers run get_basic_info, clients use the queues of the communication *)
(* thread, anyone aborts, and the device answers or not.                   *)
(***************************************************************************)
Next ==
    \/ connect
    \/ disconnect
    \/ disconnect_close
    \/ abort_operation
    \/ \E t \in Callers : get_basic_info(t)
    \/ \E t \in Threads : send_frame(t)
    \/ \E t \in Threads : write_failed(t)
    \/ \E t \in Threads : receive_frame(t)
    \/ comm_stop
    \/ comm_get_empty
    \/ comm_get_command
    \/ put_command
    \/ take_response
    \/ DeviceReplySteady
    \/ DeviceIgnore

Init == InitEngine /\ CodecIdle

Spec == Init /\ [][Next]_vars

\* C1: at most one exchange is in flight: no two threads are between their
\* send_frame and the end of their receive_frame at the same time.
C1_OneExchangeInFlight ==
    Cardinality({t \in Threads : pc[t] = "recv"}) <= 1

\* C3: once abort_operation has run while a thread is in receive_frame's
\* loop, that thread issues at most the one device read that was under way.
C3_AbortStopsReads ==
    \A t \in Threads : afterAbort[t] <= 1

\* C4: whenever a thread begins an exchange on the open device (it is about
\* to write the request frame), the abort flag is clear.
C4_AbortFlagClearAtStart ==
    [][\A t \in Threads :
          (pc[t] # "send" /\ pc'[t] = "send" /\ handleOpen)
              => ~abort_flag']_vars

\* C17: a write failure ends the exchange at once: the step a thread takes
\* after its send_frame returned False issues no device read (the thread is
\* not in receive_frame, the input buffer is as it was), writes nothing,
\* and reports failure: None on the response queue from _execute_command,
\* None returned by get_basic_info.
C17_WriteFailureEndsExchange ==
    [][\A t \in Threads :
          (pc[t] = "failed" /\ pc'[t] # "failed") =>
              /\ pc'[t] # "recv"
              /\ rx' = rx
              /\ devPending' = devPending
              /\ t = "comm" => respq' = Append(respq, None)
              /\ t \in Callers => (ret'[t] = NoInfo /\ pc'[t] = "idle")]_vars

\* a short or failed write on the open device, in the communication thread
C17_Witness ==
    /\ pc["comm"] = "failed"
    /\ handleOpen
    /\ req["comm"].function_type = OpDeviceInfo

\* C19: there is never more than one open handle nor more than one live
\* communication thread; while self.device stays set no handle is opened
\* and no thread started; while it stays None nothing is closed and no
\* lifecycle state changes.
C19_LifecycleIdempotent ==
    /\ [](openHandles <= 1 /\ liveThreads <= 1)
    /\ [][(device # "None" /\ device' # "None") =>
            (openHandles' <= openHandles /\ liveThreads' <= liveThreads)]_vars
    /\ [][(device = "None" /\ device' = "None") =>
            UNCHANGED <<handleOpen, stop_event, openHandles,
                        liveThreads>>]_vars

\* connected again after a disconnect: one handle, one thread
C19_Witness ==
    /\ stop_event
    /\ device # "None"
    /\ openHandles = 1
    /\ liveThreads = 1

\* C26: whenever the engine is connected (the handle is open and no
\* disconnect is under way), the stop event is clear and the communication
\* thread is alive, so that queued commands get executed.
C26_ConnectedThreadRuns ==
    (device # "None" /\ handleOpen /\ pc["gui"] # "join") =>
        (~stop_event /\ pc["comm"] \notin {"none", "dead"})

\* C27: self.device is set exactly when the handle is open.
C27_DeviceIffOpen == (device # "None") <=> handleOpen

(***************************************************************************)
(* The set_output specification: the GUI thread connects and calls         *)
(* set_output; the device answers each request with any of its replies,    *)
(* late or never; the communication thread finds its queue empty.          *)
(***************************************************************************)
NextOutput ==
    \/ connect
    \/ set_output
    \/ send_frame("gui")
    \/ write_failed("gui")
    \/ receive_frame("gui")
    \/ comm_get_empty
    \/ DeviceReply
    \/ DeviceIgnore

SpecOutput == Init /\ [][NextOutput]_vars

\* set_output has returned
SetOutputReturned == soRet \in {"True", "False"}

\* C8: set_output returns True only if, in the attempt it returns from, the
\* setpoint frame was written and its opcode echoed and the telemetry read
\* that followed it reported vout and iout both within tolerance of the
\* request.
C8_TrueOnlyWhenVerified ==
    soRet = "True" =>
        /\ nSetWrites >= 1
        /\ Len(attemptLog) = 3
        /\ attemptLog[2] \in {"ack", "ack_bad"}
        /\ attemptLog[3] = "tele_in"
        /\ WithinTolerance(info, soArgs.voltage, soArgs.current)

C8_Witness ==
    /\ soRet = "True"
    /\ attempts = 2
    /\ attemptLog = <<"tele_out", "ack", "tele_in">>

\* C9: when every write succeeded, every setpoint frame was acknowledged
\* and every telemetry read reported values outside tolerance, set_output
\* returns False after exactly max_retries attempts and exactly max_retries
\* setpoint frames.
C9_RetryExhaustion ==
    (SetOutputReturned /\ ~devFaults /\ ~devInTol) =>
        /\ soRet = "False"
        /\ attempts = soArgs.max_retries
        /\ nSetWrites = soArgs.max_retries

C9_Witness ==
    /\ SetOutputReturned
    /\ ~devFaults
    /\ ~devInTol
    /\ soArgs.max_retries = MaxRetries
    /\ nSetWrites = MaxRetries
    /\ soRet = "False"

\* C10: when every write succeeded, every request was answered (telemetry
\* for the state check, an acknowledgment for the setpoint frame) and the
\* first verification read was within tolerance, set_output returns True
\* after one attempt, one setpoint frame, and the verification read is its
\* last exchange.
C10_Convergence ==
    (SetOutputReturned /\ ~devFaults /\ firstVerify = "tele_in") =>
        /\ soRet = "True"
        /\ attempts = 1
        /\ nSetWrites = 1
        /\ Len(attemptLog) = 3
        /\ attemptLog[3] = "tele_in"
        /\ pc["gui"] = "idle"

C10_Witness ==
    /\ SetOutputReturned
    /\ ~devFaults
    /\ firstVerify = "tele_in"
    /\ soArgs.max_retries = MaxRetries
    /\ soRet = "True"
    /\ attempts = 1
    /\ nSetWrites = 1

\* C11: a response to the setpoint frame that does not echo the operation,
\* or echoes it with a payload that is neither the status 1 nor a full
\* readback, ends the attempt: no exchange follows it in that attempt (it
\* is the last entry of the attempt's log, and set_output has then given up).
C11_BadAckEndsAttempt ==
    \A k \in DOMAIN attemptLog :
        attemptLog[k] \in {"no_ack", "ack_bad"} =>
            (k = Len(attemptLog) /\ soRet = "False")

(***************************************************************************)
(* The same with the GUI thread kept running: a device.write and a         *)
(* device.read(64, timeout_ms=100) return, and the thread is scheduled.    *)
(***************************************************************************)
SpecOutputFair ==
    /\ Init
    /\ [][NextOutput]_vars
    /\ WF_vars(send_frame("gui"))
    /\ WF_vars(write_failed("gui"))
    /\ WF_vars(receive_frame("gui"))

\* C18: every exchange ends (a thread in receive_frame leaves it, having
\* never waited past the overall timeout) and every set_output call returns,
\* after at most max_retries attempts, whatever the device sends or omits.
C18_ExchangesTerminate ==
    /\ [](elapsed["gui"] < TimeoutMs /\ attempts <= soArgs.max_retries)
    /\ (pc["gui"] = "recv") ~> (pc["gui"] # "recv")
    /\ (op["gui"] = "set_output") ~> SetOutputReturned

\* set_output gave up against a device that sent nothing usable: the last
\* exchange of its last attempt was written and brought no telemetry
C18_Witness ==
    /\ soRet = "False"
    /\ soArgs.max_retries = MaxRetries
    /\ attempts = MaxRetries
    /\ nSetWrites = 0
    /\ attemptLog = <<"no_tele">>
    /\ handleOpen

(***************************************************************************)
(* The operations specification: the GUI thread connects and calls         *)
(* get_basic_info, get_device_info, get_settings and set_settings; the     *)
(* device answers each request with any of its replies, late or never.     *)
(***************************************************************************)
NextOps ==
    \/ connect
    \/ get_basic_info("gui")
    \/ get_device_info
    \/ get_settings
    \/ set_settings
    \/ send_frame("gui")
    \/ write_failed("gui")
    \/ receive_frame("gui")
    \/ comm_get_empty
    \/ DeviceReply
    \/ DeviceIgnore

SpecOps == Init /\ [][NextOps]_vars

\* a set_settings call has ended after get_settings gave it a record
SetSettingsEndedWithRecord ==
    /\ opRet.op = "set_settings"
    /\ opRet.kind # "none"
    /\ current_settings # NoSettings

\* the fetched record with the supplied arguments in place of their fields
Overridden(cur, args) ==
    [backlight |-> IF args.backlight # NotGiven THEN args.backlight
                   ELSE cur.backlight,
     key_sound |-> IF args.volume # NotGiven THEN args.volume
                   ELSE cur.key_sound,
     over_power_protection |-> IF args.opp # NotGiven THEN args.opp
                               ELSE cur.over_power_protection,
     over_temperature_protection |-> IF args.otp # NotGiven THEN args.otp
                                     ELSE cur.over_temperature_protection,
     reverse_protection |-> IF args.reverse_protect # NotGiven
                            THEN args.reverse_protect
                            ELSE cur.reverse_protection,
     power_on_state |-> IF args.auto_output # NotGiven THEN args.auto_output
                        ELSE cur.power_on_state]

\* the response to the settings frame echoes 0x38 with the status 1
SettingsAcknowledged ==
    /\ ssResp.ok
    /\ ssResp.function_type = OpSetSettings
    /\ ssResp.data = <<1>>

\* C12: when set_settings ends after fetching a record, the settings frame
\* it wrote carries that record with exactly the supplied fields
\* overridden, and it returned True if the device acknowledged.
C12_MergeCorrect ==
    SetSettingsEndedWithRecord =>
        /\ ssWritten = SettingsPayload(Overridden(current_settings, ssArgs))
        /\ SettingsAcknowledged => opRet.kind = "True"

\* C13: when set_settings was given a whole record, the payload it wrote,
\* handed back to get_settings as the settings response, decodes to that
\* record field for field.
C13_SettingsRoundTrip ==
    (SetSettingsEndedWithRecord /\ \A f \in DOMAIN ssArgs :
                                      ssArgs[f] # NotGiven) =>
        GetSettingsResult(TRUE, Response(OpGetSettings, ssWritten))
            = Ended("get_settings", "value", Overridden(NoSettings, ssArgs))

\* C14: set_settings returns True when the response to its settings frame
\* echoed 0x38 with the one-byte status 1, and False in every other case.
C14_AckDecides ==
    (opRet.op = "set_settings" /\ opRet.kind # "none") =>
        opRet.kind = IF SettingsAcknowledged THEN "True" ELSE "False"

\* the fields of a telemetry record in the order of the payload
InfoFields(i) ==
    <<i.vin, i.vout, i.iout, i.power, i.temp1, i.temp2, i.dc_5v, i.status>>

\* C15: whenever get_basic_info returns, either the response echoed 0x30
\* with a payload of exactly 16 bytes and every field of the returned record
\* is the little-endian word at its place in that payload, or the failure
\* value is returned, with no field populated.
C15_BasicInfoAllOrNothing ==
    [][(op["gui"] = "get_basic_info" /\ pc["gui"] # "idle"
            /\ pc'["gui"] = "idle") =>
        LET r == IF pc["gui"] = "recv" /\ handleOpen /\ rx # <<>>
                 THEN ParseReport(Head(rx).report) ELSE None
        IN  IF r.ok /\ r.function_type = OpBasicInfo
                    /\ Len(r.data) = BasicInfoLen
            THEN /\ ret'["gui"].ok
                 /\ \A k \in 1..8 :
                       InfoFields(ret'["gui"])[k]
                           = r.data[2 * k - 1] + 256 * r.data[2 * k]
            ELSE ret'["gui"] = NoInfo]_vars

\* get_basic_info returned a populated record
C15_Witness ==
    /\ pc["gui"] = "idle"
    /\ ret["gui"].ok
    /\ InfoFields(ret["gui"]) = <<1200, 5050, 950, 0, 250, 250, 5000, 1>>

\* C16: no call of a public operation ends with an exception.
C16_NoException == opRet.kind # "raise"

(***************************************************************************)
(* The application specification: MainWindow's set_output handler runs in  *)
(* the GUI thread and its watchdog may expire.                             *)
(***************************************************************************)
NextApp ==
    \/ connect
    \/ MainWindow_set_output
    \/ watchdog_expire
    \/ send_frame("gui")
    \/ write_failed("gui")
    \/ receive_frame("gui")
    \/ comm_get_empty
    \/ DeviceReply
    \/ DeviceIgnore

SpecApp == Init /\ [][NextApp]_vars

\* C20: once the watchdog has expired during set_output, the abort flag is
\* set.
C20_WatchdogAborts == watchdog_timer = "expired" => abort_flag

\* the frame's trailer is the CRC of the bytes before it (spec 4.1, 4.2)
ChecksumOk(raw) ==
    /\ Len(raw) >= MinFrameLen
    /\ Len(raw) >= 4 + raw[4] + 2
    /\ SubSeq(raw, 4 + raw[4] + 1, 4 + raw[4] + 2)
         = PackU16(crc16(SubSeq(raw, 1, 4 + raw[4])))

\* C5: a frame written by send_frame and read back by receive_frame, as
\* written or padded to a longer report, yields the opcode and the payload
\* that were sent, unchanged.
C5_RoundTrip ==
    (codecPc = "received" /\ wireKind \in {"echo", "padded"})
        => rxResult = Response(txType, txData)

C5_Witness ==
    /\ codecPc = "received"
    /\ wireKind = "echo"
    /\ Len(txData) = MaxPayload
    /\ rxResult.ok
    /\ rxResult.data = txData

\* C2: receive_frame returns a frame only when the report's 16-bit
\* little-endian trailer at [4+length, 4+length+2) equals the crc16 of the
\* 4+length bytes before it.
C2_NeverReturnsBadCrc ==
    (codecPc = "received" /\ rxResult.ok) => ChecksumOk(wire)

\* C6: a report shorter than 6 bytes, or shorter than 4+length+2 (length is
\* the byte at index 3), yields no frame, and no returned payload is shorter
\* than the declared length.
C6_TruncationRejected ==
    codecPc = "received" =>
        /\ (Len(wire) < MinFrameLen \/ Len(wire) < 4 + wire[4] + 2)
               => ~rxResult.ok
        /\ rxResult.ok => Len(rxResult.data) = wire[4]

\* C7: a frame written by send_frame, with any one bit of its header,
\* payload or checksum flipped, is rejected by receive_frame.
C7_BitFlipRejected ==
    (codecPc = "received" /\ wireKind = "bitflip") => ~rxResult.ok

\* C21: a report that does not decode (too short, or its trailer is not the
\* CRC of its header and payload) is passed over: the thread that read it
\* inside receive_frame is still in receive_frame's loop afterwards.
C21_MalformedIsNoise ==
    [][(pc["gui"] = "recv" /\ handleOpen /\ rx # <<>> /\ rx' = Tail(rx)
            /\ ~ChecksumOk(Head(rx).report))
          => pc'["gui"] = "recv"]_vars

\* C23: set_settings writes its settings frame only after its get_settings
\* returned a record, and when get_settings gave no record it returns False
\* with no settings frame written.
C23_ReadBeforeWrite ==
    /\ ssWritten # <<>> => current_settings # NoSettings
    /\ (opRet.op = "set_settings" /\ opRet.kind # "none"
            /\ current_settings = NoSettings)
          => (opRet.kind = "False" /\ ssWritten = <<>>)

\* CRC-16 as the protocol describes it: a 16-bit register starting at
\* 0xFFFF; each byte is XORed into its low byte and the register is then
\* shifted right 8 times, 0xA001 being XORed in whenever a 1 was shifted out
RefBit(v, k) == (v \div Pow2(k)) % 2

RECURSIVE RefXorFrom(_, _, _)
RefXorFrom(a, b, k) ==
    IF k = 16 THEN 0
    ELSE (IF RefBit(a, k) # RefBit(b, k) THEN Pow2(k) ELSE 0)
            + RefXorFrom(a, b, k + 1)

RefShift(reg) ==
    IF RefBit(reg, 0) = 1 THEN RefXorFrom(reg \div 2, 40961, 0)
    ELSE reg \div 2

RefByte(reg, byte) ==
    LET r0 == RefXorFrom(reg, byte, 0)
        r1 == RefShift(r0)
        r2 == RefShift(r1)
        r3 == RefShift(r2)
        r4 == RefShift(r3)
        r5 == RefShift(r4)
        r6 == RefShift(r5)
        r7 == RefShift(r6)
    IN  RefShift(r7)

RECURSIVE RefCrcFrom(_, _)
RefCrcFrom(reg, bytes) ==
    IF bytes = <<>> THEN reg
    ELSE LET next == RefByte(reg, Head(bytes))
         IN  IF next >= 0 THEN RefCrcFrom(next, Tail(bytes)) ELSE 0

RefCrc(bytes) == RefCrcFrom(65535, bytes)

\* C22: the frame send_frame writes is 0xFB, the opcode, 0x00, the payload
\* length, the payload, and the CRC-16 of all these bytes, low byte first;
\* crc16 gives the check value 0x4B37 of this CRC for the text "123456789",
\* and opcode 0x30 without payload is written as FB 30 00 00 31 0F.
C22_FrameLayout ==
    /\ crc16(<<49, 50, 51, 52, 53, 54, 55, 56, 57>>) = 19255
    /\ BuildFrame(OpBasicInfo, <<>>) = <<251, 48, 0, 0, 49, 15>>
    /\ codecPc = "written" =>
          LET body == <<251, txType, 0, Len(txData)>> \o txData
          IN  wire = body \o <<RefCrc(body) % 256, RefCrc(body) \div 256>>

C22_Witness ==
    /\ codecPc = "written"
    /\ txType = OpSetSettings
    /\ txData = <<170, 255>>
    /\ Len(wire) = 8


\* C24: a late reply is never taken for the answer to a newer request: the
\* report that receive_frame parses and returns to an exchange of set_output
\* answers the request that this exchange wrote, not a request of an
\* exchange that has already ended.
C24_NoLateReply ==
    [][(pc["gui"] = "recv" /\ handleOpen /\ rx # <<>> /\ rx' = Tail(rx)
            /\ ParseReport(Head(rx).report).ok)
          => Head(rx).by = "gui"]_vars

\* C25: the response queue holds one entry per executed command: an entry
\* is put on it exactly when the communication thread ends the execution of
\* a command it took from the command queue, and in no other step.
C25_OneResponsePerCommand ==
    [][(Len(respq') > Len(respq))
          <=> (pc["comm"] \in {"failed", "recv"} /\ pc'["comm"] = "loop")]_vars

====
